---- MODULE Spec2Model ----
(***************************************************************************)
(* A model of fbar.py, the FBAR calculator: one run of main() as a state   *)
(* machine (prompts, rate lookup, account loop, report), and its pure      *)
(* functions as operators.                                                  *)
(*                                                                         *)
(* Text is a sequence of one-character strings.  Numbers that the program  *)
(* holds as Python floats are exact rationals [num, den] here (den > 0,    *)
(* lowest terms): the model does not round to 53 bits, and it leaves out   *)
(* the spellings float() also accepts (exponents, inf, nan, underscores,   *)
(* surrounding blanks), which none of the inputs below uses.               *)
(***************************************************************************)
EXTENDS Integers, Sequences, FiniteSets

VARIABLES
    pc,               \* where the run stands: the prompt or call it blocks on
    year,             \* main's locals, <<>> until assigned
    country_name,
    currency_name,
    currency_symbol,
    response,         \* what the Treasury API answered to the one request
    exchange_rate,    \* main's exchange_rate, NoRate until assigned
    bank_name,        \* get_bank_data's bank_name of the current iteration
    bank_data,        \* get_bank_data's list, then display_results' argument
    ending,           \* how the run ended ("running" until it has)
    exit_status,      \* the process's exit status (-1 until it has one)
    trace,            \* everything the run did on the console and network
    fn,               \* pure-function harness: the function applied
    args,             \* pure-function harness: its arguments
    ret               \* pure-function harness: what it returned or raised

vars == <<pc, year, country_name, currency_name, currency_symbol, response,
          exchange_rate, bank_name, bank_data, ending, exit_status, trace,
          fn, args, ret>>

mainVars == <<pc, year, country_name, currency_name, currency_symbol, response,
              exchange_rate, bank_name, bank_data, ending, exit_status, trace>>

harnessVars == <<fn, args, ret>>

----------------------------------------------------------------------------
(* Rationals *)

RECURSIVE Gcd(_, _)
Gcd(a, b) == IF b = 0 THEN a ELSE Gcd(b, a % b)

Abs(n) == IF n < 0 THEN -n ELSE n

\* n / d in lowest terms with a positive denominator (d # 0).
Rat(n, d) ==
    LET g == Gcd(Abs(n), Abs(d))
        s == IF d < 0 THEN -1 ELSE 1
    IN  [num |-> (s * n) \div g, den |-> (s * d) \div g]

RatOfInt(n) == [num |-> n, den |-> 1]

RatLess(a, b) == a.num * b.den < b.num * a.den

RatLeq(a, b) == a.num * b.den <= b.num * a.den

RatAdd(a, b) == Rat(a.num * b.den + b.num * a.den, a.den * b.den)

\* a / b for b # 0
RatDiv(a, b) == Rat(a.num * b.den, a.den * b.num)

Zero == RatOfInt(0)

\* "no value yet" for a rational variable (never a number: den = 0)
NoRate == [num |-> 0, den |-> 0]

----------------------------------------------------------------------------
(* Text *)

DigitChars == {"0", "1", "2", "3", "4", "5", "6", "7", "8", "9"}

DigitVal(c) ==
    CASE c = "0" -> 0 [] c = "1" -> 1 [] c = "2" -> 2 [] c = "3" -> 3
      [] c = "4" -> 4 [] c = "5" -> 5 [] c = "6" -> 6 [] c = "7" -> 7
      [] c = "8" -> 8 [] c = "9" -> 9

DigitChar(n) ==
    CASE n = 0 -> "0" [] n = 1 -> "1" [] n = 2 -> "2" [] n = 3 -> "3"
      [] n = 4 -> "4" [] n = 5 -> "5" [] n = 6 -> "6" [] n = 7 -> "7"
      [] n = 8 -> "8" [] n = 9 -> "9"

AllDigits(s) == \A i \in 1..Len(s) : s[i] \in DigitChars

RECURSIVE Pow10(_)
Pow10(k) == IF k = 0 THEN 1 ELSE 10 * Pow10(k - 1)

\* int(s) for a string of digits
RECURSIVE StrToNat(_)
StrToNat(s) ==
    IF s = <<>> THEN 0
    ELSE 10 * StrToNat(SubSeq(s, 1, Len(s) - 1)) + DigitVal(s[Len(s)])

\* str(n) for n >= 0
RECURSIVE IntToStr(_)
IntToStr(n) ==
    IF n < 10 THEN <<DigitChar(n)>>
    ELSE Append(IntToStr(n \div 10), DigitChar(n % 10))

----------------------------------------------------------------------------
(* Results of calls: a value, or the exception that left the call *)

Returned(v) == [raised |-> "none", val |-> v, msg |-> ""]

Raised(e, m) == [raised |-> e, val |-> NoRate, msg |-> m]

----------------------------------------------------------------------------
(* Python values that the program adds and converts *)

PyFloat(r) == [type |-> "float", val |-> r]

PyStr == [type |-> "str", val |-> NoRate]

PyNone == [type |-> "NoneType", val |-> NoRate]

NumericTypes == {"int", "float"}

\* float(s) for a string s: an optional sign, digits with at most one point
\* and at least one digit; anything else is a ValueError.
float_of_str(s) ==
    LET signed == s # <<>> /\ s[1] \in {"+", "-"}
        body   == IF signed THEN Tail(s) ELSE s
        dots   == {i \in 1..Len(body) : body[i] = "."}
        digits == SelectSeq(body, LAMBDA c : c \in DigitChars)
        ok     == /\ \A i \in 1..Len(body) : body[i] \in DigitChars \cup {"."}
                  /\ Cardinality(dots) <= 1
                  /\ digits # <<>>
        places == IF dots = {} THEN 0 ELSE Len(body) - (CHOOSE i \in dots : TRUE)
        sign   == IF signed /\ s[1] = "-" THEN -1 ELSE 1
    IN  IF ok THEN Returned(Rat(sign * StrToNat(digits), Pow10(places)))
        ELSE Raised("ValueError", "could not convert string to float")

\* float(v) for a decoded JSON value v = [type, text]
float_of_json(v) ==
    CASE v.type = "str"    -> float_of_str(v.text)
      [] v.type = "number" -> float_of_str(v.text)
      [] v.type = "true"   -> Returned(RatOfInt(1))
      [] OTHER             -> Raised("TypeError", "float() argument must be a string or a real number")

\* max(0, x): x only when it is greater than 0
max0(x) == IF RatLess(Zero, x) THEN x ELSE Zero

----------------------------------------------------------------------------
(* fbar.py: constants *)

FBAR_THRESHOLD == 10000

EXIT_FBAR_ERROR == 1

EXIT_CANCELLED == 0

\* datetime.datetime.now().year, the calendar year of the run
current_year == 2022

default_year == IntToStr(current_year - 1)

DEFAULT_COUNTRY == <<"B", "r", "a", "z", "i", "l">>

DEFAULT_CURRENCY == <<"R", "e", "a", "l">>

DEFAULT_SYMBOL == <<"R", "$">>

PAT_YEAR == "^\\d{4}$"

PAT_NONEMPTY == ".+"

PAT_DIGITS == "^[0-9]+$"

MSG_YEAR == "Year must be 4 digits"

MSG_COUNTRY == "Country name cannot be empty"

MSG_CURRENCY == "Currency name cannot be empty"

MSG_SYMBOL == "Currency symbol cannot be empty"

MSG_BANK == "Bank name cannot be empty"

MSG_BALANCE == "Balance must be a positive number"

MSG_LOOKUP_FAILED == "Failed to retrieve exchange rate data"

MSG_NO_DATA == "No exchange rate data found"

MSG_RATE_NOT_POSITIVE == "Exchange rate must be positive"

MSG_CANCELLED == "Operation cancelled by user."

----------------------------------------------------------------------------
(* fbar.py: functions *)

\* The exceptions get_exchange_rate's except clause turns into FBARError
LookupCaught == {"RequestException", "KeyError", "ValueError", "IndexError"}

\* The body of get_exchange_rate's try block, on the API's answer resp
get_exchange_rate_try(resp) ==
    CASE resp.kind \in {"transport_error", "http_error"} ->
             Raised("RequestException", "")
      [] resp.kind \in {"no_data", "empty_data"} ->
             Raised("FBARError", MSG_NO_DATA)
      [] resp.kind = "no_field" ->
             Raised("KeyError", "exchange_rate")
      [] resp.kind = "field" ->
             float_of_json(resp.value)

get_exchange_rate(resp) ==
    LET r == get_exchange_rate_try(resp)
    IN  IF r.raised \in LookupCaught
        THEN Raised("FBARError", MSG_LOOKUP_FAILED)
        ELSE r

\* The conversion without its floor at 0
calculate_total_balance_in_usd_unfloored(total_balance, rate) ==
    IF RatLeq(rate, Zero)
    THEN Raised("FBARError", MSG_RATE_NOT_POSITIVE)
    ELSE Returned(RatDiv(total_balance, rate))

\* The conversion that refuses a rate of 0 only
calculate_total_balance_in_usd_zero_only(total_balance, rate) ==
    IF rate.num = 0
    THEN Raised("FBARError", MSG_RATE_NOT_POSITIVE)
    ELSE Returned(max0(RatDiv(total_balance, rate)))

calculate_total_balance_in_usd(total_balance, rate) ==
    IF RatLeq(rate, Zero)
    THEN Raised("FBARError", MSG_RATE_NOT_POSITIVE)
    ELSE Returned(max0(RatDiv(total_balance, rate)))

\* sum(item[2] for item in data), from the item at position i on, acc so far
RECURSIVE sum_balances(_, _, _)
sum_balances(data, i, acc) ==
    IF i > Len(data) THEN Returned(acc)
    ELSE IF Len(data[i]) < 3 THEN Raised("IndexError", "tuple index out of range")
    ELSE IF data[i][3].type \notin NumericTypes
         THEN Raised("TypeError", "unsupported operand type(s) for +")
    ELSE sum_balances(data, i + 1, RatAdd(acc, data[i][3].val))

AggregateCaught == {"IndexError", "TypeError", "ValueError"}

\* The sum that skips a malformed item instead of giving up the whole sum
RECURSIVE sum_wellformed(_, _, _)
sum_wellformed(data, i, acc) ==
    IF i > Len(data) THEN acc
    ELSE IF Len(data[i]) < 3 \/ data[i][3].type \notin NumericTypes
         THEN sum_wellformed(data, i + 1, acc)
    ELSE sum_wellformed(data, i + 1, RatAdd(acc, data[i][3].val))

get_total_foreign_balance_partial(data) == Returned(sum_wellformed(data, 1, Zero))

get_total_foreign_balance(data) ==
    LET r == sum_balances(data, 1, Zero)
    IN  IF r.raised \in AggregateCaught THEN Returned(Zero) ELSE r

\* re.match(pattern, value) is not None, for the three patterns in use
\* (the text read from a console line holds no newline)
re_match(pattern, value) ==
    CASE pattern = PAT_YEAR     -> Len(value) = 4 /\ AllDigits(value)
      [] pattern = PAT_NONEMPTY -> Len(value) >= 1
      [] pattern = PAT_DIGITS   -> Len(value) >= 1 /\ AllDigits(value)

\* The prompt without a default: the answer as it is
or_default_missing(text, default) == text

\* The append that puts the new entry first
append_entry_first(data, yr, name, balance, usd_balance) ==
    <<<<yr, name, PyFloat(balance), usd_balance>>>> \o data

\* input(...) or default: an empty answer is replaced by the default
or_default(text, default) == IF text = <<>> THEN default ELSE text

\* bank_data.append((year, bank_name, balance, usd_balance))
append_entry(data, yr, name, balance, usd_balance) ==
    Append(data, <<yr, name, PyFloat(balance), usd_balance>>)

\* The message is error_message; the program prefixes it "Invalid input: ".
validate_input(value, pattern, error_message) ==
    IF ~re_match(pattern, value)
    THEN Raised("FBARError", error_message)
    ELSE Returned(NoRate)

----------------------------------------------------------------------------
(* What the user and the API may answer *)

\* The longest list of accounts a run enters
MaxAccounts == 2

YearResponses ==
    { <<>>, <<"2", "0", "1", "9">>, <<"2", "3">>, <<"2", "0", "2", "1", "1">>,
      <<"2", "0", "x", "1">> }

CountryResponses == { <<>>, <<"P", "e", "r", "u">> }

CurrencyResponses == { <<>>, <<"S", "o", "l">> }

SymbolResponses == { <<>>, <<"S", "/">> }

BankResponses == { <<>>, <<"I", "t", "a", "u">> }

BalanceResponses ==
    { <<>>, <<"0">>, <<"5", "0", "0", "0">>, <<"1", "0", "0", "0", "0">>,
      <<"1", ".", "5">>, <<"-", "1">>, <<"x">> }

JsonStr(t) == [type |-> "str", text |-> t]

JsonNull == [type |-> "null", text |-> <<>>]

JsonTrue == [type |-> "true", text |-> <<>>]

JsonNumber(t) == [type |-> "number", text |-> t]

NoResponse == [kind |-> "none", value |-> JsonNull]

Field(v) == [kind |-> "field", value |-> v]

Responses ==
    { [kind |-> k, value |-> JsonNull] :
        k \in {"transport_error", "http_error", "no_data", "empty_data", "no_field"} }
    \cup
    { Field(v) : v \in
        { JsonStr(<<"1">>), JsonStr(<<"0", ".", "5">>), JsonStr(<<"0">>),
          JsonStr(<<"-", "1">>), JsonStr(<<"a", "b", "c">>), JsonStr(<<>>),
          JsonNumber(<<"2">>), JsonNull, JsonTrue } }

----------------------------------------------------------------------------
(* Console and network events *)

Event(e, a, t) == [ev |-> e, at |-> a, text |-> t]

Input(prompt, text) == Event("input", prompt, text)

Output(line, text) == Event("print", line, text)

Request(country, currency, yr) ==
    Event("request", "rates_of_exchange", country \o <<"-">> \o currency \o <<":">> \o yr)

Banner == Output("banner", <<>>)

Prompts == {"year", "country", "currency", "symbol", "bank_name", "balance"}

----------------------------------------------------------------------------
(* main: how a run ends *)

\* The handler that reports the error and lets the run go on at the same step
main_except_FBARError_reprompt(pre, message) ==
    /\ pc' = pc
    /\ ending' = ending
    /\ exit_status' = exit_status
    /\ trace' = trace \o pre \o <<Output("error", <<message>>)>>

\* The handler that exits with status 0
main_except_FBARError_status0(pre, message) ==
    /\ pc' = "exited"
    /\ ending' = "FBARError"
    /\ exit_status' = 0
    /\ trace' = trace \o pre \o <<Output("error", <<message>>)>>

\* except FBARError: print(str(e)); sys.exit(1), after the events pre
main_except_FBARError(pre, message) ==
    /\ pc' = "exited"
    /\ ending' = "FBARError"
    /\ exit_status' = EXIT_FBAR_ERROR
    /\ trace' = trace \o pre \o <<Output("error", <<message>>)>>

\* The interrupt handler that exits with the status of an error
main_except_KeyboardInterrupt_status1(pre) ==
    /\ pc' = "exited"
    /\ ending' = "KeyboardInterrupt"
    /\ exit_status' = 1
    /\ trace' = trace \o pre \o <<Output("cancelled", <<MSG_CANCELLED>>)>>

\* except KeyboardInterrupt: print the notice; sys.exit(0)
main_except_KeyboardInterrupt(pre) ==
    /\ pc' = "exited"
    /\ ending' = "KeyboardInterrupt"
    /\ exit_status' = EXIT_CANCELLED
    /\ trace' = trace \o pre \o <<Output("cancelled", <<MSG_CANCELLED>>)>>

\* An exception main does not catch: the interpreter prints the traceback
\* and the process exits with status 1.
main_uncaught(pre, exception) ==
    /\ pc' = "exited"
    /\ ending' = "uncaught"
    /\ exit_status' = 1
    /\ trace' = trace \o pre \o <<Output("traceback", <<exception>>)>>

\* main returns after display_results: the process exits with status 0.
main_returns(pre) ==
    /\ pc' = "exited"
    /\ ending' = "completed"
    /\ exit_status' = 0
    /\ trace' = trace \o pre

----------------------------------------------------------------------------
(* main: the steps of a run *)

Init ==
    /\ pc = "year"
    /\ year = <<>>
    /\ country_name = <<>>
    /\ currency_name = <<>>
    /\ currency_symbol = <<>>
    /\ response = NoResponse
    /\ exchange_rate = NoRate
    /\ bank_name = <<>>
    /\ bank_data = <<>>
    /\ ending = "running"
    /\ exit_status = -1
    /\ trace = <<Banner>>
    /\ fn = "none"
    /\ args = <<>>
    /\ ret = Returned(NoRate)

\* get_user_input: the year prompt, its default and its rule
InputYear ==
    /\ pc = "year"
    /\ \E text \in YearResponses :
         LET value == or_default(text, default_year)
             v     == validate_input(value, PAT_YEAR, MSG_YEAR)
         IN  IF v.raised # "none"
             THEN /\ main_except_FBARError(<<Input("year", text)>>, v.msg)
                  /\ UNCHANGED year
             ELSE /\ year' = value
                  /\ pc' = "country"
                  /\ trace' = Append(trace, Input("year", text))
                  /\ UNCHANGED <<ending, exit_status>>
    /\ UNCHANGED <<country_name, currency_name, currency_symbol, response,
                   exchange_rate, bank_name, bank_data>>
    /\ UNCHANGED harnessVars

\* get_user_input: the country prompt
InputCountry ==
    /\ pc = "country"
    /\ \E text \in CountryResponses :
         LET value == or_default(text, DEFAULT_COUNTRY)
             v     == validate_input(value, PAT_NONEMPTY, MSG_COUNTRY)
         IN  IF v.raised # "none"
             THEN /\ main_except_FBARError(<<Input("country", text)>>, v.msg)
                  /\ UNCHANGED country_name
             ELSE /\ country_name' = value
                  /\ pc' = "currency"
                  /\ trace' = Append(trace, Input("country", text))
                  /\ UNCHANGED <<ending, exit_status>>
    /\ UNCHANGED <<year, currency_name, currency_symbol, response,
                   exchange_rate, bank_name, bank_data>>
    /\ UNCHANGED harnessVars

\* get_user_input: the currency-name prompt
InputCurrencyName ==
    /\ pc = "currency"
    /\ \E text \in CurrencyResponses :
         LET value == or_default(text, DEFAULT_CURRENCY)
             v     == validate_input(value, PAT_NONEMPTY, MSG_CURRENCY)
         IN  IF v.raised # "none"
             THEN /\ main_except_FBARError(<<Input("currency", text)>>, v.msg)
                  /\ UNCHANGED currency_name
             ELSE /\ currency_name' = value
                  /\ pc' = "symbol"
                  /\ trace' = Append(trace, Input("currency", text))
                  /\ UNCHANGED <<ending, exit_status>>
    /\ UNCHANGED <<year, country_name, currency_symbol, response,
                   exchange_rate, bank_name, bank_data>>
    /\ UNCHANGED harnessVars

\* get_user_input: the currency-symbol prompt; the function then returns
InputCurrencySymbol ==
    /\ pc = "symbol"
    /\ \E text \in SymbolResponses :
         LET value == or_default(text, DEFAULT_SYMBOL)
             v     == validate_input(value, PAT_NONEMPTY, MSG_SYMBOL)
         IN  IF v.raised # "none"
             THEN /\ main_except_FBARError(<<Input("symbol", text)>>, v.msg)
                  /\ UNCHANGED currency_symbol
             ELSE /\ currency_symbol' = value
                  /\ pc' = "lookup"
                  /\ trace' = Append(trace, Input("symbol", text))
                  /\ UNCHANGED <<ending, exit_status>>
    /\ UNCHANGED <<year, country_name, currency_name, response,
                   exchange_rate, bank_name, bank_data>>
    /\ UNCHANGED harnessVars

\* main's call of get_exchange_rate: one request, whatever the API answers
LookupRate ==
    /\ pc = "lookup"
    /\ \E resp \in Responses :
         LET r   == get_exchange_rate(resp)
             req == Request(country_name, currency_name, year)
         IN  /\ response' = resp
             /\ CASE r.raised = "none" ->
                       /\ exchange_rate' = r.val
                       /\ pc' = "bank_name"
                       /\ trace' = Append(trace, req)
                       /\ UNCHANGED <<ending, exit_status>>
                  [] r.raised = "FBARError" ->
                       /\ main_except_FBARError(<<req>>, r.msg)
                       /\ UNCHANGED exchange_rate
                  [] OTHER ->
                       /\ main_uncaught(<<req>>, r.raised)
                       /\ UNCHANGED exchange_rate
    /\ UNCHANGED <<year, country_name, currency_name, currency_symbol,
                   bank_name, bank_data>>
    /\ UNCHANGED harnessVars

\* get_bank_data: the bank-name prompt; an empty answer ends the loop and the
\* function returns bank_data to main, which calls display_results
InputBankName ==
    /\ pc = "bank_name"
    /\ \E text \in BankResponses :
         IF text = <<>>
         THEN /\ pc' = "display"
              /\ trace' = Append(trace, Input("bank_name", text))
              /\ UNCHANGED <<bank_name, ending, exit_status>>
         ELSE /\ Len(bank_data) < MaxAccounts
              /\ LET v == validate_input(text, PAT_NONEMPTY, MSG_BANK)
                 IN  IF v.raised # "none"
                     THEN /\ main_except_FBARError(<<Input("bank_name", text)>>, v.msg)
                          /\ UNCHANGED bank_name
                     ELSE /\ bank_name' = text
                          /\ pc' = "balance"
                          /\ trace' = Append(trace, Input("bank_name", text))
                          /\ UNCHANGED <<ending, exit_status>>
    /\ UNCHANGED <<year, country_name, currency_name, currency_symbol, response,
                   exchange_rate, bank_data>>
    /\ UNCHANGED harnessVars

\* get_bank_data: the balance prompt, its rule, the conversion and the append
InputBalance ==
    /\ pc = "balance"
    /\ \E text \in BalanceResponses :
         LET v == validate_input(text, PAT_DIGITS, MSG_BALANCE)
         IN  IF v.raised # "none"
             THEN /\ main_except_FBARError(<<Input("balance", text)>>, v.msg)
                  /\ UNCHANGED bank_data
             ELSE LET balance == float_of_str(text).val
                      usd     == calculate_total_balance_in_usd(balance, exchange_rate)
                  IN  IF usd.raised # "none"
                      THEN /\ main_except_FBARError(<<Input("balance", text)>>, usd.msg)
                           /\ UNCHANGED bank_data
                      ELSE /\ bank_data' = append_entry(bank_data, year, bank_name,
                                                        balance, usd.val)
                           /\ pc' = "bank_name"
                           /\ trace' = Append(trace, Input("balance", text))
                           /\ UNCHANGED <<ending, exit_status>>
    /\ UNCHANGED <<year, country_name, currency_name, currency_symbol, response,
                   exchange_rate, bank_name>>
    /\ UNCHANGED harnessVars

\* The threshold test with > in place of >=
filing_message_strict(total_usd_balance, yr) ==
    IF RatLess(RatOfInt(FBAR_THRESHOLD), total_usd_balance)
    THEN <<Output("may_need_to_file", IntToStr(StrToNat(yr) + 1)),
           Output("efiling_url", <<>>)>>
    ELSE <<Output("may_not_need_to_file", IntToStr(StrToNat(yr) + 1))>>

\* The filing message display_results prints for an aggregate USD balance
filing_message(total_usd_balance, yr) ==
    IF RatLeq(RatOfInt(FBAR_THRESHOLD), total_usd_balance)
    THEN <<Output("may_need_to_file", IntToStr(StrToNat(yr) + 1)),
           Output("efiling_url", <<>>)>>
    ELSE <<Output("may_not_need_to_file", IntToStr(StrToNat(yr) + 1))>>

\* What display_results prints, or the exception that leaves it
display_results(data, yr, rate) ==
    LET total_foreign_balance == get_total_foreign_balance(data).val
        total_usd == calculate_total_balance_in_usd(total_foreign_balance, rate)
    IN  IF total_usd.raised # "none"
        THEN [raised |-> total_usd.raised, msg |-> total_usd.msg, lines |-> <<>>]
        ELSE [raised |-> "none", msg |-> "",
              lines  |-> <<Output("rate", <<>>)>>
                         \o (IF data # <<>> THEN <<Output("table", <<>>)>> ELSE <<>>)
                         \o <<Output("total", <<>>)>>
                         \o filing_message(total_usd.val, yr)]

\* main's call of display_results, after which main returns
DisplayResults ==
    /\ pc = "display"
    /\ LET d == display_results(bank_data, year, exchange_rate)
       IN  IF d.raised # "none"
           THEN main_except_FBARError(<<>>, d.msg)
           ELSE main_returns(d.lines)
    /\ UNCHANGED <<year, country_name, currency_name, currency_symbol, response,
                   exchange_rate, bank_name, bank_data>>
    /\ UNCHANGED harnessVars

\* Ctrl-C while the run blocks on a prompt or on the request
KeyboardInterrupt ==
    /\ pc \in Prompts \cup {"lookup"}
    /\ main_except_KeyboardInterrupt(<<Event("interrupt", pc, <<>>)>>)
    /\ UNCHANGED <<year, country_name, currency_name, currency_symbol, response,
                   exchange_rate, bank_name, bank_data>>
    /\ UNCHANGED harnessVars

\* End of input at a prompt: input() raises EOFError, which main does not catch
EndOfInput ==
    /\ pc \in Prompts
    /\ main_uncaught(<<Event("eof", pc, <<>>)>>, "EOFError")
    /\ UNCHANGED <<year, country_name, currency_name, currency_symbol, response,
                   exchange_rate, bank_name, bank_data>>
    /\ UNCHANGED harnessVars

Next ==
    \/ InputYear
    \/ InputCountry
    \/ InputCurrencyName
    \/ InputCurrencySymbol
    \/ LookupRate
    \/ InputBankName
    \/ InputBalance
    \/ DisplayResults
    \/ KeyboardInterrupt
    \/ EndOfInput

Spec == Init /\ [][Next]_vars

----------------------------------------------------------------------------
(* The pure functions applied to arguments of their whole domain *)

\* The largest numerator of an amount or a rate given to the conversion
MaxNumerator == 3

\* The longest list given to the aggregation
MaxEntries == 3

Amounts ==
    { Rat(n, d) : n \in -MaxNumerator..MaxNumerator, d \in {1, 2} }
    \cup { RatOfInt(10), RatOfInt(100), RatOfInt(-100) }

Rates ==
    { Rat(n, d) : n \in -MaxNumerator..MaxNumerator, d \in {1, 2} }
    \cup { RatOfInt(5), RatOfInt(10), RatOfInt(-5) }

\* Balance fields: numbers, and values that are not numbers
BalanceFields ==
    { PyFloat(RatOfInt(100)), PyFloat(RatOfInt(200)), PyFloat(Rat(-1, 2)),
      PyStr, PyNone }

EntryOf(b) == <<<<"2", "0", "1", "0">>, <<"I", "t", "a", "u">>, b, RatOfInt(50)>>

RECURSIVE EntryLists(_)
EntryLists(n) ==
    IF n = 0 THEN { <<>> }
    ELSE LET shorter == EntryLists(n - 1)
         IN  shorter \cup
             { Append(l, EntryOf(b)) : l \in {x \in shorter : Len(x) = n - 1},
                                       b \in BalanceFields }

InitPure ==
    /\ pc = "call"
    /\ year = <<>>
    /\ country_name = <<>>
    /\ currency_name = <<>>
    /\ currency_symbol = <<>>
    /\ response = NoResponse
    /\ exchange_rate = NoRate
    /\ bank_name = <<>>
    /\ bank_data = <<>>
    /\ ending = "running"
    /\ exit_status = -1
    /\ trace = <<>>
    /\ ret = Returned(NoRate)
    /\ \/ /\ fn = "calculate_total_balance_in_usd"
          /\ args \in { <<a, r>> : a \in Amounts, r \in Rates }
       \/ /\ fn = "get_total_foreign_balance"
          /\ args \in { <<l>> : l \in EntryLists(MaxEntries) }

CallConvert ==
    /\ pc = "call"
    /\ fn = "calculate_total_balance_in_usd"
    /\ ret' = calculate_total_balance_in_usd(args[1], args[2])
    /\ pc' = "returned"
    /\ UNCHANGED <<year, country_name, currency_name, currency_symbol, response,
                   exchange_rate, bank_name, bank_data, ending, exit_status,
                   trace, fn, args>>

CallAggregate ==
    /\ pc = "call"
    /\ fn = "get_total_foreign_balance"
    /\ ret' = get_total_foreign_balance(args[1])
    /\ pc' = "returned"
    /\ UNCHANGED <<year, country_name, currency_name, currency_symbol, response,
                   exchange_rate, bank_name, bank_data, ending, exit_status,
                   trace, fn, args>>

NextPure == CallConvert \/ CallAggregate

SpecPure == InitPure /\ [][NextPure]_vars

----------------------------------------------------------------------------
(* Claims about the pure functions, under SpecPure *)

ConvertReturned == pc = "returned" /\ fn = "calculate_total_balance_in_usd"

AggregateReturned == pc = "returned" /\ fn = "get_total_foreign_balance"

\* q = a / r, checked by multiplying back (r # 0)
IsQuotient(q, a, r) == q.den > 0 /\ q.num * r.num * a.den = a.num * r.den * q.den

\* C3: calculate_total_balance_in_usd(amount, rate) raises the domain error
\* whenever rate <= 0, whatever the amount; otherwise it returns amount / rate
\* for amount >= 0 and exactly 0 for amount < 0; it never returns a negative
\* value.
C3_ConversionReference ==
    ConvertReturned =>
        LET amount == args[1]
            rate   == args[2]
        IN  IF rate.num <= 0
            THEN ret.raised = "FBARError" /\ ret.msg = MSG_RATE_NOT_POSITIVE
            ELSE /\ ret.raised = "none"
                 /\ ret.val.num >= 0
                 /\ IF amount.num >= 0
                    THEN IsQuotient(ret.val, amount, rate)
                    ELSE ret.val = Zero

\* A negative amount at a positive rate was converted, and gave 0
C3_Witness ==
    /\ ConvertReturned
    /\ args[1].num < 0
    /\ args[2].num > 0
    /\ ret = Returned(Zero)

WellFormed(data) ==
    \A i \in 1..Len(data) : Len(data[i]) >= 3 /\ data[i][3].type \in NumericTypes

\* The sum of the balance fields, taken from the last item back
RECURSIVE BalanceSum(_)
BalanceSum(data) ==
    IF data = <<>> THEN Zero
    ELSE RatAdd(data[Len(data)][3].val, BalanceSum(SubSeq(data, 1, Len(data) - 1)))

\* C4: get_total_foreign_balance returns the sum of the balance fields when
\* all of them are numbers, 0 for the empty list, and 0 for the whole list,
\* never a partial sum and never an error, when any item's balance field is
\* not a number, wherever that item stands.
C4_AggregateReference ==
    AggregateReturned =>
        LET data == args[1]
        IN  /\ ret.raised = "none"
            /\ data = <<>> => ret.val = Zero
            /\ WellFormed(data) => ret.val = BalanceSum(data)
            /\ ~WellFormed(data) => ret.val = Zero

\* A list whose first items are numbers and whose last item is not: the sum
\* of the numbers is not 0, and the function returned 0
C4_Witness ==
    /\ AggregateReturned
    /\ Len(args[1]) = 3
    /\ WellFormed(SubSeq(args[1], 1, 2))
    /\ BalanceSum(SubSeq(args[1], 1, 2)) # Zero
    /\ ~WellFormed(args[1])
    /\ ret = Returned(Zero)

----------------------------------------------------------------------------
(* Reading the trace of a run *)

ReportLines ==
    {"rate", "table", "total", "may_need_to_file", "efiling_url", "may_not_need_to_file"}

IsInput(e, prompt) == e.ev = "input" /\ e.at = prompt

IsOutput(e, line) == e.ev = "print" /\ e.at = line

Printed(line) == \E i \in 1..Len(trace) : IsOutput(trace[i], line)

PrintedCount(line) == Cardinality({i \in 1..Len(trace) : IsOutput(trace[i], line)})

ReportPrinted == \E line \in ReportLines : Printed(line)

Last == trace[Len(trace)]

\* The run ended by printing the message of a domain error
EndedWithError(message) ==
    /\ pc = "exited"
    /\ ending = "FBARError"
    /\ Last = Output("error", <<message>>)

\* The answers given at a prompt, in order
Answers(prompt) ==
    LET inputs == SelectSeq(trace, LAMBDA e : IsInput(e, prompt))
    IN  [i \in 1..Len(inputs) |-> inputs[i].text]

FourDigits(text) == Len(text) = 4 /\ \A i \in 1..4 : text[i] \in DigitChars

DigitsOnly(text) == text # <<>> /\ \A i \in 1..Len(text) : text[i] \in DigitChars

\* The answer at a prompt breaks the rule the spec states for that prompt
BreaksRule(e) ==
    /\ e.ev = "input"
    /\ CASE e.at = "year"      -> e.text # <<>> /\ ~FourDigits(e.text)
         [] e.at = "balance"   -> ~DigitsOnly(e.text)
         [] OTHER              -> FALSE

\* The API's answer is one for which the lookup raises the domain error
LookupFails(resp) == get_exchange_rate(resp).raised = "FBARError"

RatePositive == exchange_rate # NoRate /\ exchange_rate.num > 0

RateNotPositive == exchange_rate # NoRate /\ exchange_rate.num <= 0

----------------------------------------------------------------------------
(* Claims about a run of main, under Spec *)

\* C1: the exit status follows from how the run ends: 0 when the pipeline
\* completes (the report is printed), 1 whenever a domain error is raised
\* (a rule broken at a prompt, a failed lookup, a conversion at a rate that
\* is not positive), its message printed first, and 0 when the user
\* interrupts a prompt or the lookup, the cancellation notice printed first.
C1_ExitStatus ==
    /\ ending = "completed" =>
           /\ exit_status = 0
           /\ Printed("total")
           /\ Last.ev = "print" /\ Last.at \in {"efiling_url", "may_not_need_to_file"}
    /\ ending = "FBARError" =>
           /\ exit_status = 1
           /\ Last.ev = "print" /\ Last.at = "error"
    /\ ending = "KeyboardInterrupt" =>
           /\ exit_status = 0
           /\ Last = Output("cancelled", <<MSG_CANCELLED>>)
    /\ \A i \in 1..Len(trace) :
           /\ BreaksRule(trace[i]) => ending = "FBARError" /\ exit_status = 1
           /\ trace[i].ev = "interrupt" =>
                  /\ trace[i].at \in Prompts \cup {"lookup"}
                  /\ ending = "KeyboardInterrupt" /\ exit_status = 0
    /\ (response # NoResponse /\ LookupFails(response)) =>
           ending = "FBARError" /\ exit_status = 1
    /\ (RateNotPositive /\ \E i \in 1..Len(trace) :
                               IsInput(trace[i], "balance") /\ DigitsOnly(trace[i].text)) =>
           ending = "FBARError" /\ exit_status = 1
    /\ (RateNotPositive /\ pc = "exited" /\ Printed("error")) =>
           ending = "FBARError" /\ exit_status = 1
    /\ pc = "exited" <=> ending # "running"
    /\ pc # "exited" => exit_status = -1

\* A run that a failed conversion ended: the rate was 0 or less, a balance
\* was entered, and the status is 1 after the message
C1_Witness ==
    /\ EndedWithError(MSG_RATE_NOT_POSITIVE)
    /\ exit_status = 1
    /\ RateNotPositive

\* The aggregate of the entries' balances, in USD at the run's rate, is at
\* least the threshold (by cross-multiplication, for a positive rate)
RECURSIVE ForeignTotal(_)
ForeignTotal(data) ==
    IF data = <<>> THEN 0
    ELSE data[Len(data)][3].val.num + ForeignTotal(SubSeq(data, 1, Len(data) - 1))

ReachesThreshold ==
    ForeignTotal(bank_data) * exchange_rate.den >= FBAR_THRESHOLD * exchange_rate.num

NextApril == IntToStr(StrToNat(year) + 1)

\* C2: for the entries and the positive rate it is given, display_results
\* prints exactly one of the two filing messages: "may need to file", with
\* the e-filing URL, if and only if the aggregate USD balance is at least
\* 10000 (exactly 10000 included), "may not need to file" otherwise; both
\* name April of year + 1.
C2_FilingMessage ==
    (ending = "completed" /\ RatePositive) =>
        /\ PrintedCount("may_need_to_file") + PrintedCount("may_not_need_to_file") = 1
        /\ Printed("may_need_to_file") <=> ReachesThreshold
        /\ Printed("efiling_url") <=> Printed("may_need_to_file")
        /\ \A i \in 1..Len(trace) :
               trace[i].at \in {"may_need_to_file", "may_not_need_to_file"} =>
                   trace[i].text = NextApril

\* A report for an aggregate of exactly 10000 USD: "may need to file"
C2_Witness ==
    /\ ending = "completed"
    /\ RatePositive
    /\ ForeignTotal(bank_data) * exchange_rate.den = FBAR_THRESHOLD * exchange_rate.num
    /\ Len(bank_data) = 2
    /\ year = <<"2", "0", "1", "9">>
    /\ trace[Len(trace) - 1] = Output("may_need_to_file", <<"2", "0", "2", "0">>)


\* The field of the first record is there and is not a number: a string
\* that is no numeral, or null
NotNumeric(v) ==
    \/ v.type = "null"
    \/ v.type = "str" /\ float_of_str(v.text).raised # "none"

Numeric(v) == v.type \in {"str", "number"} /\ float_of_str(v.text).raised = "none"

\* C5: get_exchange_rate raises the domain error, and lets no other error
\* out, when the request fails (transport, HTTP status), when there is no
\* matching record (no data array, an empty one), when the first record has
\* no exchange_rate field, and when that field is not numeric (a string that
\* is no number, a JSON null); for a numeric field it returns the field
\* parsed as a number.
C5_LookupErrors ==
    response # NoResponse =>
        /\ ( \/ response.kind \in {"transport_error", "http_error", "no_data",
                                   "empty_data", "no_field"}
             \/ response.kind = "field" /\ NotNumeric(response.value) )
           => ending = "FBARError" /\ exchange_rate = NoRate
        /\ (response.kind = "field" /\ Numeric(response.value))
           => /\ ending # "uncaught"
              /\ exchange_rate = float_of_str(response.value.text).val

\* C6: a domain error aborts the run at once.  After an answer that breaks
\* its rule nothing follows but the error message (no prompt, no request,
\* no report line) and no prompt of the session is asked twice; when the
\* lookup fails the run has ended with status 1 and no bank name or balance
\* was asked for.
C6_AbortAtOnce ==
    /\ \A i \in 1..Len(trace) :
           BreaksRule(trace[i]) =>
               /\ pc = "exited" /\ exit_status = 1
               /\ i = Len(trace) - 1
               /\ Last.ev = "print" /\ Last.at = "error"
               /\ ~ReportPrinted
    /\ \A p \in {"year", "country", "currency", "symbol"} : Len(Answers(p)) <= 1
    /\ Cardinality({i \in 1..Len(trace) : trace[i].ev = "request"}) <= 1
    /\ (response # NoResponse /\ get_exchange_rate(response).raised # "none") =>
           /\ pc = "exited" /\ exit_status = 1
           /\ \A i \in 1..Len(trace) : trace[i].at \notin {"bank_name", "balance"}
           /\ ~ReportPrinted
           /\ trace[Len(trace) - 1].ev = "request"

\* A balance that breaks its rule, entered for the second account: the run
\* ended there
C6_Witness ==
    /\ Len(bank_data) = 1
    /\ pc = "exited" /\ exit_status = 1
    /\ BreaksRule(trace[Len(trace) - 1])
    /\ trace[Len(trace) - 1].at = "balance"

\* C7 as stated: the exit status of an interrupted run differs from the
\* status of a run that completes (0) and from the status of a run that a
\* domain error ends.
C7_DistinctStatus ==
    ending = "KeyboardInterrupt" => exit_status \notin {0, EXIT_FBAR_ERROR}

\* C7 as amended: an interrupted run ends cleanly (the notice, no traceback)
\* with status 0, which differs from the status of a run that a domain error
\* ends (1) and is the status of a run that completes (0).
C7_InterruptStatus ==
    /\ ending = "KeyboardInterrupt" =>
           /\ exit_status = 0
           /\ exit_status # EXIT_FBAR_ERROR
           /\ Printed("cancelled") /\ ~Printed("traceback") /\ ~Printed("error")
    /\ ending = "completed" => exit_status = 0
    /\ ending = "FBARError" => exit_status = EXIT_FBAR_ERROR /\ exit_status # 0

\* A run interrupted while it waited for the API
C7_Witness ==
    /\ ending = "KeyboardInterrupt"
    /\ exit_status = 0
    /\ trace[Len(trace) - 1] = Event("interrupt", "lookup", <<>>)


\* The bank names answered before the loop's end, and the balances
NamesEntered == SelectSeq(Answers("bank_name"), LAMBDA t : t # <<>>)

BalancesEntered == Answers("balance")

InLoop == pc \in {"bank_name", "balance"}

\* C8, the state part: while the account loop runs and after it has ended,
\* bank_data holds one entry per validated (bank name, balance) pair in the
\* order entered; each entry has the session's year, the bank name and the
\* non-negative integer entered, and a USD balance that is that integer
\* divided by the looked-up rate, so neither is negative.  The loop has
\* ended if and only if an empty bank name was answered, which happens once
\* and is the last answer of the run.
C8_Entries ==
    (pc \in {"bank_name", "balance", "display"} \/ ending = "completed") =>
        /\ Len(bank_data) = Len(BalancesEntered)
        /\ Len(NamesEntered) = Len(bank_data) + (IF pc = "balance" THEN 1 ELSE 0)
        /\ \A i \in 1..Len(bank_data) :
               LET e == bank_data[i]
               IN  /\ Len(e) = 4
                   /\ e[1] = year
                   /\ e[2] = NamesEntered[i]
                   /\ DigitsOnly(BalancesEntered[i])
                   /\ e[3] = PyFloat(RatOfInt(StrToNat(BalancesEntered[i])))
                   /\ RatePositive
                   /\ IsQuotient(e[4], e[3].val, exchange_rate)
                   /\ e[3].val.num >= 0 /\ e[4].num >= 0
        /\ LET empties == {i \in 1..Len(trace) : trace[i] = Input("bank_name", <<>>)}
           IN  /\ InLoop => empties = {}
               /\ ~InLoop => /\ Cardinality(empties) = 1
                             /\ \A i \in empties : \A j \in (i + 1)..Len(trace) :
                                    trace[j].ev = "print"

\* C8, the step part: an entry once appended is never changed or removed,
\* and the list is returned as it stands when the loop ends.
C8_EntriesKept ==
    [][ /\ Len(bank_data') >= Len(bank_data)
        /\ \A i \in 1..Len(bank_data) : bank_data'[i] = bank_data[i]
        /\ (pc = "bank_name" /\ pc' = "display") => bank_data' = bank_data ]_vars

\* C8: in get_bank_data the loop ends at the first empty bank name and
\* returns the entries collected so far; the list holds one entry per
\* validated pair, in order, each with the session year, the entered
\* balance and its conversion at the one rate; entries are never changed or
\* removed.
C8_AccountLoop == []C8_Entries /\ C8_EntriesKept

\* Two accounts of different balances entered, then the empty bank name
C8_Witness ==
    /\ pc = "display"
    /\ Len(bank_data) = 2
    /\ bank_data[1][3] # bank_data[2][3]
    /\ bank_data[2][4].num > 0

\* A report line was printed, or the run ended otherwise than by a domain
\* error with status 1
C9_Escapes ==
    \/ ReportPrinted
    \/ pc = "exited" /\ ~(ending = "FBARError" /\ exit_status = 1)

\* C9 as stated: if the looked-up rate is zero or negative, every run ends
\* with a domain error and exit status 1 and prints no part of the report.
C9_EveryRunFails == RateNotPositive => ~C9_Escapes

\* C9 as amended: if the looked-up rate is zero or negative, no part of the
\* report is ever printed and no entry is ever stored; every run in which the
\* user answers the prompts (no interrupt, no end of input) ends with a
\* domain error and exit status 1.  With a validated balance the error is
\* raised at the first conversion, inside the account loop, right after the
\* first balance; with no account it is raised by display_results, right
\* after the empty bank name, with nothing printed before it.
C9_NonPositiveRate ==
    RateNotPositive =>
        /\ ~ReportPrinted
        /\ bank_data = <<>>
        /\ ending # "completed"
        /\ (pc = "exited" /\ ending \notin {"KeyboardInterrupt", "uncaught"}) =>
               /\ ending = "FBARError" /\ exit_status = 1
               /\ Len(BalancesEntered) <= 1
               /\ LET answer == trace[Len(trace) - 1]
                  IN  \/ /\ Last = Output("error", <<MSG_RATE_NOT_POSITIVE>>)
                         /\ \/ /\ IsInput(answer, "balance")
                               /\ DigitsOnly(answer.text)
                               /\ Len(BalancesEntered) = 1
                            \/ /\ answer = Input("bank_name", <<>>)
                               /\ BalancesEntered = <<>>
                      \/ /\ Last = Output("error", <<MSG_BALANCE>>)
                         /\ IsInput(answer, "balance")
                         /\ ~DigitsOnly(answer.text)
        /\ (\E i \in 1..Len(trace) :
                IsInput(trace[i], "balance") /\ DigitsOnly(trace[i].text)) =>
               EndedWithError(MSG_RATE_NOT_POSITIVE)

\* A rate of 0 or less and no account: display_results raised the error
C9_Witness ==
    /\ RateNotPositive
    /\ EndedWithError(MSG_RATE_NOT_POSITIVE)
    /\ trace[Len(trace) - 1] = Input("bank_name", <<>>)
    /\ exit_status = 1

ValidationMessages ==
    {MSG_YEAR, MSG_COUNTRY, MSG_CURRENCY, MSG_SYMBOL, MSG_BANK, MSG_BALANCE}

\* C10: the only rules that fail in a run are the year rule (an answer that
\* is not exactly four digits) and the balance rule (an answer that is empty
\* or not digits only).  An empty answer for the year, the country, the
\* currency name or the currency symbol is replaced by the default before it
\* is checked, and an empty bank name ends the loop before any check, so
\* the non-empty rules never fail; an empty balance has no default and ends
\* the run with a domain error.
C10_ValidationFailures ==
    /\ \A i \in 1..Len(trace) :
           (IsOutput(trace[i], "error") /\ trace[i].text[1] \in ValidationMessages) =>
               /\ i > 1
               /\ \/ /\ trace[i].text[1] = MSG_YEAR
                     /\ IsInput(trace[i - 1], "year")
                     /\ trace[i - 1].text # <<>> /\ ~FourDigits(trace[i - 1].text)
                  \/ /\ trace[i].text[1] = MSG_BALANCE
                     /\ IsInput(trace[i - 1], "balance")
                     /\ ~DigitsOnly(trace[i - 1].text)
    /\ \A i \in 1..Len(trace) :
           LET e == trace[i]
           IN  /\ (IsInput(e, "year") /\ (e.text = <<>> \/ FourDigits(e.text))) =>
                      /\ year = (IF e.text = <<>> THEN default_year ELSE e.text)
                      /\ FourDigits(year)
                      /\ ~EndedWithError(MSG_YEAR)
               /\ IsInput(e, "country") =>
                      country_name = (IF e.text = <<>> THEN DEFAULT_COUNTRY ELSE e.text)
               /\ IsInput(e, "currency") =>
                      currency_name = (IF e.text = <<>> THEN DEFAULT_CURRENCY ELSE e.text)
               /\ IsInput(e, "symbol") =>
                      currency_symbol = (IF e.text = <<>> THEN DEFAULT_SYMBOL ELSE e.text)
               /\ (IsInput(e, "year") /\ e.text # <<>> /\ ~FourDigits(e.text)) =>
                      EndedWithError(MSG_YEAR) /\ i = Len(trace) - 1
               /\ (IsInput(e, "balance") /\ ~DigitsOnly(e.text)) =>
                      EndedWithError(MSG_BALANCE) /\ i = Len(trace) - 1
               /\ e = Input("bank_name", <<>>) =>
                      (pc = "display" \/ pc = "exited") /\ ~Printed("traceback")
    /\ pc \in {"lookup", "bank_name", "balance", "display"} =>
           /\ country_name # <<>> /\ currency_name # <<>> /\ currency_symbol # <<>>

\* Every session prompt answered with an empty line, then an empty balance:
\* the defaults stand, and the balance rule ended the run
C10_Witness ==
    /\ year = default_year
    /\ country_name = DEFAULT_COUNTRY
    /\ currency_name = DEFAULT_CURRENCY
    /\ currency_symbol = DEFAULT_SYMBOL
    /\ \A p \in {"year", "country", "currency", "symbol"} : Answers(p) = << <<>> >>
    /\ EndedWithError(MSG_BALANCE)
    /\ trace[Len(trace) - 1] = Input("balance", <<>>)

====
